---- MODULE Spec2Model ----
(***************************************************************************)
(* The subprocess code-interpreter core of open-interpreter: the Python    *)
(* and PowerShell language adapters (line instrumentor, error wrapper,     *)
(* output classifier) and the interactive session that runs their output.  *)
(*                                                                         *)
(* Text is a sequence of one-character strings, so that substring search,  *)
(* str.split and int() are computed and not assumed.                       *)
(***************************************************************************)
EXTENDS Integers, Sequences, FiniteSets, TLC

VARIABLES
    line,          \* SpecLine: the output line handed to the classifier
    classified,    \* SpecLine: FALSE until the classifier has run on line
    post,          \* SpecLine: per adapter, what line_postprocessor returned
    active,        \* SpecLine: what detect_active_line returned (per adapter)
    ended,         \* SpecLine: what detect_end_of_execution returned (per adapter)
    lang,          \* session: "none", "python" or "powershell"
    start_cmd,     \* session: the command the subprocess was started with
    host,          \* host: what the adapter's constructor looked at
    found,         \* host: whether the binary start_cmd names exists
    proc,          \* session: "none", "alive", "dead" (exited) or "killed"
    turn,          \* session: "idle", "running", "done", "failed"
    turns,         \* session: number of submissions so far
    code,          \* session: the code submitted in the current turn
    trace,         \* subprocess: the lines the submitted program writes, in order
    pos,           \* subprocess: how many lines of trace it has written
    stdout,        \* pipe: lines written to the output stream, not yet read
    stderr,        \* pipe: lines written to the error stream, not yet read
    output_queue,  \* reader -> consumer queue of classified events
    events,        \* the events the caller has received in the current turn
    interpreter,   \* terminal: the settings validate_llm_settings looks at
    displayed,     \* terminal: display_welcome_message_once has its _displayed attribute
    welcome_calls, \* terminal: calls of display_welcome_message_once so far
    console,       \* terminal: the messages displayed so far, in order
    calls,         \* terminal: calls made by the host so far
    files,         \* scan: the temporary files that exist
    scans,         \* scan: calls of scan_code so far
    scan_result,   \* scan: how the last call of scan_code ended
    scan_out,      \* scan: what the last call of scan_code printed
    sys_modules,   \* packages: the names in sys.modules
    pkg_calls,     \* packages: calls of check_for_package so far
    pkg_last,      \* packages: the package the last call asked for
    pkg_result,    \* packages: what the last call returned, or the exception it raised
    load_failed,   \* packages: those a call returned False for after loading failed
    block_message,       \* message block: the markdown text, line by line
    textified,     \* message block: textify_markdown_code_blocks of message
    retextified,   \* message block: textify_markdown_code_blocks of textified
    passes         \* message block: how many of the two have been computed

lineVars == <<line, classified, post, active, ended>>
sessVars == <<lang, start_cmd, host, found, proc, turn, turns, code, trace, pos,
              stdout, stderr, output_queue, events>>
welcomeVars == <<interpreter, displayed, welcome_calls, console, calls>>
\* the variables of the terminal interface and of the utilities
scanVars == <<files, scans, scan_result, scan_out>>
pkgVars == <<sys_modules, pkg_calls, pkg_last, pkg_result, load_failed>>
textVars == <<block_message, textified, retextified, passes>>
utilVars == <<welcomeVars, scanVars, pkgVars, textVars>>
vars == <<lineVars, sessVars, utilVars>>

(***************************************************************************)
(* Bounds of the model.                                                    *)
(***************************************************************************)
MaxPieces == 3
MaxTurns == 2

(***************************************************************************)
(* The marker protocol's literals.                                         *)
(***************************************************************************)
\* "##active_line"
ACTIVE_LINE == <<"#","#","a","c","t","i","v","e","_","l","i","n","e">>
\* "##"
HASHES == <<"#","#">>
\* "##end_of_execution##"
END_OF_EXECUTION ==
    <<"#","#","e","n","d","_","o","f","_","e","x","e","c","u","t","i","o","n","#","#">>

(***************************************************************************)
(* Python's str operations, on sequences of characters.                    *)
(***************************************************************************)
DigitChars == <<"0","1","2","3","4","5","6","7","8","9">>
IsDigit(c) == \E d \in 1..10 : DigitChars[d] = c
DigitValue(c) == (CHOOSE d \in 1..10 : DigitChars[d] = c) - 1
IsSpace(c) == c = " "

\* str(n) for n >= 0, as the f-strings format a line number
RECURSIVE Str(_)
Str(n) == IF n < 10 THEN <<DigitChars[n + 1]>>
          ELSE Str(n \div 10) \o <<DigitChars[(n % 10) + 1]>>

\* s[i:].startswith(sub), i 1-based
StartsWithAt(s, sub, i) ==
    /\ i + Len(sub) - 1 <= Len(s)
    /\ SubSeq(s, i, i + Len(sub) - 1) = sub

\* s.find(sub, i): the first index >= i where sub occurs, 0 when there is none
RECURSIVE Find(_, _, _)
Find(s, sub, i) ==
    IF i + Len(sub) - 1 > Len(s) THEN 0
    ELSE IF StartsWithAt(s, sub, i) THEN i
    ELSE Find(s, sub, i + 1)

\* sub in s
Contains(s, sub) == Find(s, sub, 1) # 0

\* s.split(sep)[0]
SplitFirst(s, sep) ==
    LET k == Find(s, sep, 1)
    IN  IF k = 0 THEN s ELSE SubSeq(s, 1, k - 1)

\* s.split(sep)[1], for s that contains sep
SplitSecond(s, sep) ==
    LET k == Find(s, sep, 1)
        rest == SubSeq(s, k + Len(sep), Len(s))
    IN  SplitFirst(rest, sep)

\* s.lstrip() and s.strip()
RECURSIVE LStrip(_)
LStrip(s) == IF s # <<>> /\ IsSpace(Head(s)) THEN LStrip(Tail(s)) ELSE s
RECURSIVE RStrip(_)
RStrip(s) == IF s # <<>> /\ IsSpace(s[Len(s)]) THEN RStrip(SubSeq(s, 1, Len(s) - 1))
             ELSE s
Strip(s) == RStrip(LStrip(s))

RECURSIVE DigitsValue(_)
DigitsValue(s) == IF s = <<>> THEN 0
                  ELSE 10 * DigitsValue(SubSeq(s, 1, Len(s) - 1)) + DigitValue(s[Len(s)])

None == [tag |-> "None"]
ValueError == [tag |-> "ValueError"]
IntOf(n) == [tag |-> "int", val |-> n]

\* int(s): surrounding whitespace and one sign are accepted, then at least one
\* digit and nothing else; anything else raises ValueError
ParseInt(s) ==
    LET t == Strip(s)
        signed == t # <<>> /\ t[1] \in {"+", "-"}
        digits == IF signed THEN Tail(t) ELSE t
    IN  IF digits = <<>> \/ \E i \in 1..Len(digits) : ~IsDigit(digits[i])
        THEN ValueError
        ELSE IF signed /\ t[1] = "-" THEN IntOf(0 - DigitsValue(digits))
        ELSE IntOf(DigitsValue(digits))

(***************************************************************************)
(* The output classifier of the two adapters.                              *)
(***************************************************************************)
Python_detect_active_line(l) ==
    IF Contains(l, ACTIVE_LINE)
    THEN ParseInt(SplitFirst(SplitSecond(l, ACTIVE_LINE), HASHES))
    ELSE None

PowerShell_detect_active_line(l) ==
    IF Contains(l, ACTIVE_LINE)
    THEN ParseInt(SplitFirst(SplitSecond(l, ACTIVE_LINE), HASHES))
    ELSE None

\* A detector that only accepts the sentinel at the start of the line.
Mut_detect_end_of_execution_startswith(l) == StartsWithAt(l, END_OF_EXECUTION, 1)

Python_detect_end_of_execution(l) == Contains(l, END_OF_EXECUTION)

PowerShell_detect_end_of_execution(l) == Contains(l, END_OF_EXECUTION)

(***************************************************************************)
(* SpecLine: the classifier applied to one output line.  The line is any   *)
(* concatenation of at most MaxPieces pieces: the protocol's literals,     *)
(* digits, ordinary text, blanks, a sign and the interactive prompts.      *)
(***************************************************************************)
Pieces == { ACTIVE_LINE, HASHES, END_OF_EXECUTION, <<"7">>, <<"1","2">>, <<"x">>,
            <<" ">>, <<"-">>, <<">",">",">">>, <<".",".",".">> }

RECURSIVE LinesOf(_)
LinesOf(n) == IF n = 0 THEN { <<>> }
              ELSE LET shorter == LinesOf(n - 1)
                   IN  shorter \cup { l \o p : l \in shorter, p \in Pieces }

LineInputs == LinesOf(MaxPieces)

Adapters == {"python", "powershell"}

detect_active_line(a, l) ==
    IF a = "python" THEN Python_detect_active_line(l)
    ELSE PowerShell_detect_active_line(l)

detect_end_of_execution(a, l) ==
    IF a = "python" THEN Python_detect_end_of_execution(l)
    ELSE PowerShell_detect_end_of_execution(l)

StrOf(l) == [tag |-> "str", val |-> l]

\* a post-processor that looks for the prompt at the first character only
Mut_line_postprocessor_no_leading_space(l) ==
    IF StartsWithAt(l, <<">",">",">">>, 1) \/ StartsWithAt(l, <<".",".",".">>, 1)
    THEN None ELSE StrOf(l)

\* re.match(r"^(\s*>>>\s*|\s*\.\.\.\s*)", line): None when it matches
Python_line_postprocessor(l) ==
    LET t == LStrip(l)
    IN  IF StartsWithAt(t, <<">",">",">">>, 1) \/ StartsWithAt(t, <<".",".",".">>, 1)
        THEN None ELSE StrOf(l)

PowerShell_line_postprocessor(l) == StrOf(l)

line_postprocessor(a, l) ==
    IF a = "python" THEN Python_line_postprocessor(l) ELSE PowerShell_line_postprocessor(l)

\* What a constructor found out about the host: platform.system() and
\* shutil.which("pwsh"), "unasked" for what it did not look at
Host(system, which_pwsh) == [system |-> system, which_pwsh |-> which_pwsh]
NoHost == Host("unasked", "unasked")

\* Nothing has been displayed and no validation asked for.
NoInterpreter == [local |-> TRUE, openai_model |-> FALSE, api_key |-> FALSE, auto_run |-> TRUE]
WelcomeIdle ==
    /\ interpreter = NoInterpreter /\ displayed = FALSE /\ welcome_calls = 0
    /\ console = <<>> /\ calls = 0

\* No scan has been asked for and no temporary file exists.
ScanIdle == files = {} /\ scans = 0 /\ scan_result = "none" /\ scan_out = <<>>

\* The modules the running interpreter has loaded at start
LoadedAtStart == {"sys"}

\* check_for_package has not been called.
PkgIdle ==
    /\ sys_modules = LoadedAtStart /\ pkg_calls = 0 /\ pkg_last = "" /\ pkg_result = "none"
    /\ load_failed = {}

\* No message has been rendered.
TextIdle == block_message = <<>> /\ textified = <<>> /\ retextified = <<>> /\ passes = 0

UtilIdle == WelcomeIdle /\ ScanIdle /\ PkgIdle /\ TextIdle

SessionIdle ==
    /\ lang = "none" /\ start_cmd = "" /\ host = NoHost /\ found = TRUE
    /\ proc = "none" /\ turn = "idle"
    /\ turns = 0 /\ code = <<>> /\ pos = 0
    /\ trace = [out |-> <<>>, exits |-> FALSE, steps |-> <<>>, fault |-> "ok"]
    /\ stdout = <<>> /\ stderr = <<>> /\ output_queue = <<>> /\ events = <<>>

LineIdle ==
    /\ line = <<>> /\ classified = FALSE
    /\ post = [a \in Adapters |-> None]
    /\ active = [a \in Adapters |-> None]
    /\ ended = [a \in Adapters |-> FALSE]

InitLine ==
    /\ line \in LineInputs
    /\ classified = FALSE
    /\ post = [a \in Adapters |-> None]
    /\ active = [a \in Adapters |-> None]
    /\ ended = [a \in Adapters |-> FALSE]
    /\ SessionIdle
    /\ UtilIdle

\* The reader hands the line to both detectors of each adapter.
ClassifyLine ==
    /\ ~classified
    /\ classified' = TRUE
    /\ post' = [a \in Adapters |-> line_postprocessor(a, line)]
    /\ active' = [a \in Adapters |-> detect_active_line(a, line)]
    /\ ended' = [a \in Adapters |-> detect_end_of_execution(a, line)]
    /\ UNCHANGED line
    /\ UNCHANGED <<sessVars, utilVars>>

NextLine == ClassifyLine

SpecLine == InitLine /\ [][NextLine]_vars

(***************************************************************************)
(* Occurrence of a literal in a line, stated character by character.       *)
(***************************************************************************)
OccursAt(l, sub, i) ==
    /\ i >= 1
    /\ i + Len(sub) - 1 <= Len(l)
    /\ \A k \in 1..Len(sub) : l[i + k - 1] = sub[k]

Occurs(l, sub) == \E i \in 1..Len(l) : OccursAt(l, sub, i)

\* C9: for both adapters and every line, detect_active_line returns an integer
\* exactly when the line contains ##active_line, and None exactly when it does
\* not.  The code raises ValueError on a line such as "##active_line##".
CE_C9_ActiveLineIffMarker ==
    classified =>
        \A a \in Adapters :
            /\ Occurs(line, ACTIVE_LINE) <=> active[a].tag = "int"
            /\ ~Occurs(line, ACTIVE_LINE) <=> active[a] = None

\* C10: for both adapters and every line, detect_end_of_execution is true iff
\* ##end_of_execution## occurs somewhere in the line.
Thm_C10_EndOfExecutionIffSentinel ==
    classified =>
        \A a \in Adapters : ended[a] <=> Occurs(line, END_OF_EXECUTION)

\* C10's case: the sentinel in the middle of a line, text before and after it.
Wit_C10_SentinelInsideLine ==
    /\ classified
    /\ \A a \in Adapters : ended[a]
    /\ Len(line) > Len(END_OF_EXECUTION) + 1
    /\ line[1] = "x"
    /\ line[Len(line)] = "7"

\* A pure prompt echo: a primary or continuation prompt, optionally surrounded
\* by blanks, and nothing else.
IsPurePrompt(l) ==
    \E i \in 0..Len(l) :
        /\ i + 3 <= Len(l)
        /\ \A k \in 1..i : l[k] = " "
        /\ \/ (l[i + 1] = ">" /\ l[i + 2] = ">" /\ l[i + 3] = ">")
           \/ (l[i + 1] = "." /\ l[i + 2] = "." /\ l[i + 3] = ".")
        /\ \A k \in (i + 4)..Len(l) : l[k] = " "

\* C11: the Python adapter's line_postprocessor returns None (Discard) for
\* every line that is a pure prompt echo, >>> or ... optionally surrounded by
\* blanks; the shell adapter's returns every line unchanged, discarding none.
Thm_C11_PromptEchoDiscarded ==
    classified =>
        /\ IsPurePrompt(line) => post["python"] = None
        /\ post["powershell"] = StrOf(line)

\* C11's case: a prompt with a blank on each side has been post-processed.
Wit_C11_PaddedPromptDiscarded ==
    /\ classified
    /\ line = <<" ", ">", ">", ">", " ">>
    /\ post["python"] = None
    /\ post["powershell"] = StrOf(line)

\* A line carries a marker when the sentinel occurs in it, or ##active_line
\* followed by decimal digits and ##
CarriesMarker(l) ==
    \/ Occurs(l, END_OF_EXECUTION)
    \/ \E i, j \in 1..Len(l) :
          /\ OccursAt(l, ACTIVE_LINE, i)
          /\ j > i + Len(ACTIVE_LINE)
          /\ OccursAt(l, HASHES, j)
          /\ \A k \in (i + Len(ACTIVE_LINE))..(j - 1) : IsDigit(l[k])

\* C26: for both adapters every output line gets exactly one variant: no line
\* is read both as ActiveLine and as EndOfExecution, and a line carrying a
\* marker is never discarded as prompt noise.
CE_C26_ExactlyOneVariant ==
    classified =>
        \A a \in Adapters :
            /\ ~(active[a].tag = "int" /\ ended[a])
            /\ CarriesMarker(line) => post[a] # None

\* C28: the Python line_postprocessor discards a line only if the line is
\* nothing but a prompt (>>> or ...) and whitespace; every line with any other
\* content, output that begins with a prompt included, is returned unchanged.
CE_C28_DiscardsOnlyPurePrompts ==
    classified =>
        /\ post["python"] = None => IsPurePrompt(line)
        /\ ~IsPurePrompt(line) => post["python"] = StrOf(line)

\* C29: detect_active_line is total: for every line, also when the text
\* between ##active_line and the next ## is empty or no decimal integer, it
\* returns an integer or None and does not raise.
CE_C29_DetectActiveLineTotal ==
    classified =>
        \A a \in Adapters : active[a].tag \in {"int", "None"}

(***************************************************************************)
(* Python programs as syntax trees.  A node is a record with a kind; a     *)
(* statement list is the node L(items).  Only nodes that ast.parse gave a  *)
(* position carry lineno: the statements the instrumentor and the wrapper  *)
(* build do not (insert_print_statement sets none).  Print nodes carry by, *)
(* who wrote the statement: the submitted code, the instrumentor or the    *)
(* wrapper.                                                                *)
(***************************************************************************)
L(items) == [kind |-> "list", items |-> items]
IsList(x) == x.kind = "list"
hasattr(node, f) == f \in DOMAIN node

PrintOut(n, t) == [kind |-> "Print", lineno |-> n, stream |-> "stdout", text |-> t, by |-> "user"]
PrintErr(n, t) == [kind |-> "Print", lineno |-> n, stream |-> "stderr", text |-> t, by |-> "user"]
Raise(n, e) == [kind |-> "Raise", lineno |-> n, exc |-> e]
Pass(n) == [kind |-> "Pass", lineno |-> n]
Constant(n) == [kind |-> "Constant", lineno |-> n]
Lambda(n, b) == [kind |-> "Lambda", lineno |-> n, body |-> b]
IfExp(n, b, o) == [kind |-> "IfExp", lineno |-> n, body |-> b, orelse |-> o]
Assign(n, v) == [kind |-> "Assign", lineno |-> n, value |-> v]
\* x = input()
Input(n) == [kind |-> "Input", lineno |-> n]
\* text that is not a Python statement
Invalid == [kind |-> "Invalid"]
\* whether ast.parse accepts the code
parses(c) == \A i \in 1..Len(c) : c[i].kind # "Invalid"
If(n, t, b, o) == [kind |-> "If", lineno |-> n, test |-> t, body |-> L(b), orelse |-> L(o)]
For(n, k, b, o) == [kind |-> "For", lineno |-> n, iters |-> k, body |-> L(b), orelse |-> L(o)]
With(n, b) == [kind |-> "With", lineno |-> n, body |-> L(b)]
FunctionDef(n, b) == [kind |-> "FunctionDef", lineno |-> n, body |-> L(b)]
ExceptHandler(n, t, b) == [kind |-> "ExceptHandler", lineno |-> n, type |-> t, body |-> L(b)]
Try(n, b, h, o, f) ==
    [kind |-> "Try", lineno |-> n, body |-> L(b), handlers |-> L(h),
     orelse |-> L(o), finalbody |-> L(f)]
TryStar(n, b, h, o, f) ==
    [kind |-> "TryStar", lineno |-> n, body |-> L(b), handlers |-> L(h),
     orelse |-> L(o), finalbody |-> L(f)]
Module(b) == [kind |-> "Module", body |-> L(b)]

\* ast.parse: the submitted code is given by the statements it parses to
parse(c) == Module(c)

(***************************************************************************)
(* AddLinePrints                                                           *)
(***************************************************************************)
\* an instrumentor that counts lines from 0
Mut_insert_print_statement_zero_based(line_number) ==
    [kind |-> "Print", stream |-> "stdout",
     text |-> ACTIVE_LINE \o Str(line_number - 1) \o HASHES, by |-> "instrumentor"]

\* print('##active_line<line_number>##'), a node without lineno
insert_print_statement(line_number) ==
    [kind |-> "Print", stream |-> "stdout",
     text |-> ACTIVE_LINE \o Str(line_number) \o HASHES, by |-> "instrumentor"]

\* process_body with the marker appended after its statement
RECURSIVE Mut_process_items_after(_)
Mut_process_items_after(items) ==
    IF items = <<>> THEN <<>>
    ELSE LET sub_node == Head(items)
         IN  (IF hasattr(sub_node, "lineno")
              THEN <<sub_node, insert_print_statement(sub_node.lineno)>>
              ELSE <<sub_node>>) \o Mut_process_items_after(Tail(items))

Mut_process_body_after(body) ==
    L(Mut_process_items_after(IF IsList(body) THEN body.items ELSE <<body>>))

\* the loop of process_body over the (listified) body
RECURSIVE process_items(_)
process_items(items) ==
    IF items = <<>> THEN <<>>
    ELSE LET sub_node == Head(items)
         IN  (IF hasattr(sub_node, "lineno")
              THEN <<insert_print_statement(sub_node.lineno), sub_node>>
              ELSE <<sub_node>>) \o process_items(Tail(items))

process_body(body) ==
    L(process_items(IF IsList(body) THEN body.items ELSE <<body>>))

\* the fields of a node that hold child nodes
ChildFields == {"body", "orelse", "handlers", "finalbody", "value"}

\* bool(x) of a field: a list is true when non-empty, a node always
Truthy(x) == IF IsList(x) THEN x.items # <<>> ELSE TRUE

RECURSIVE visit(_)
RECURSIVE visit_field(_)

\* NodeTransformer.generic_visit on one field: each node of a list, or the node
visit_field(x) ==
    IF IsList(x) THEN L([i \in 1..Len(x.items) |-> visit(x.items[i])])
    ELSE visit(x)

\* NodeTransformer.generic_visit: the children first
generic_visit(node) ==
    [f \in DOMAIN node |-> IF f \in ChildFields THEN visit_field(node[f]) ELSE node[f]]

process_handlers(handlers) ==
    L([i \in 1..Len(handlers.items) |->
         [handlers.items[i] EXCEPT !.body = process_body(@)]])

visit(node) ==
    LET new_node == generic_visit(node)
        n1 == IF hasattr(new_node, "body")
              THEN [new_node EXCEPT !.body = process_body(@)] ELSE new_node
        n2 == IF hasattr(n1, "orelse") /\ Truthy(n1.orelse)
              THEN [n1 EXCEPT !.orelse = process_body(@)] ELSE n1
        n3 == IF n2.kind = "Try"
              THEN LET h == [n2 EXCEPT !.handlers = process_handlers(@)]
                   IN  IF Truthy(h.finalbody)
                       THEN [h EXCEPT !.finalbody = process_body(@)] ELSE h
              ELSE n2
    IN  n3

\* The expression slots ast.unparse writes as one expression: it raises
\* TypeError (unhashable type: 'list') when such a slot holds a list.
ExprBodyKinds == {"Lambda", "IfExp"}

RECURSIVE unparse_raises(_)
unparse_raises(x) ==
    IF IsList(x) THEN \E i \in 1..Len(x.items) : unparse_raises(x.items[i])
    ELSE \/ x.kind \in ExprBodyKinds /\ IsList(x.body)
         \/ \E f \in DOMAIN x \cap ChildFields : unparse_raises(x[f])

TypeError == [ok |-> FALSE, error |-> "TypeError"]
\* ast.parse(code) raises SyntaxError on text that is not a Python program
SyntaxError == [ok |-> FALSE, error |-> "SyntaxError"]
Ok(tree) == [ok |-> TRUE, tree |-> tree]

\* add_active_line_prints of python.py: parse, transform, unparse.  The text
\* unparse returns is given by the tree it is the source of.
\* an instrumentor that takes text it cannot parse for an empty program
Mut_add_active_line_prints_lenient(c) ==
    LET new_tree == visit(parse(IF parses(c) THEN c ELSE <<>>))
    IN  IF unparse_raises(new_tree) THEN TypeError ELSE Ok(new_tree)

Python_add_active_line_prints(c) ==
    IF ~parses(c) THEN SyntaxError
    ELSE LET new_tree == visit(parse(c))
         IN  IF unparse_raises(new_tree) THEN TypeError ELSE Ok(new_tree)

\* import traceback, prepended as text by wrap_in_try_except
ImportTraceback == [kind |-> "Import"]
\* traceback.print_exc()
PrintExc == [kind |-> "PrintExc"]
\* print("##end_of_execution##")
PrintSentinel ==
    [kind |-> "Print", stream |-> "stdout", text |-> END_OF_EXECUTION, by |-> "wrapper"]

\* a wrapper that protects every top-level statement by a construct of its own
Mut_wrap_in_try_except_each(tree) ==
    Module(<<ImportTraceback>> \o
           [i \in 1..Len(tree.body.items) |->
               [kind |-> "Try",
                body |-> L(<<tree.body.items[i]>>),
                handlers |-> L(<< [kind |-> "ExceptHandler", type |-> "Exception",
                                   body |-> L(<<PrintExc>>)] >>),
                orelse |-> L(<<>>), finalbody |-> L(<<>>)]])

\* wrap_in_try_except: "import traceback\n" + code is parsed, and the whole
\* body becomes the body of one ast.Try with one handler, except Exception
wrap_in_try_except(tree) ==
    Module(<< [kind |-> "Try",
               body |-> L(<<ImportTraceback>> \o tree.body.items),
               handlers |-> L(<< [kind |-> "ExceptHandler", type |-> "Exception",
                                  body |-> L(<<PrintExc>>)] >>),
               orelse |-> L(<<>>), finalbody |-> L(<<>>)] >>)

\* preprocess_python: instrument, wrap, append the sentinel statement
preprocess_python(c) ==
    LET marked == Python_add_active_line_prints(c)
    IN  IF ~marked.ok THEN marked
        ELSE LET wrapped == wrap_in_try_except(marked.tree)
             IN  Ok(Module(wrapped.body.items \o <<PrintSentinel>>))

(***************************************************************************)
(* The text of a Python program.  A line is its indentation depth and its  *)
(* text; ast.unparse lays a tree out one statement per line, the bodies    *)
(* indented, with an empty line before every function definition that is   *)
(* not the first thing written.                                            *)
(***************************************************************************)
TextLine(d, t) == [indent |-> d, text |-> t]
EmptyLine == TextLine(0, <<>>)

\* What a node's own line reads, by kind
Keyword(k) ==
    CASE k = "Print" -> <<"p","r","i","n","t">>
      [] k = "PrintExc" -> <<"p","r","i","n","t","_","e","x","c">>
      [] k = "Import" -> <<"i","m","p","o","r","t">>
      [] k = "Raise" -> <<"r","a","i","s","e">>
      [] k = "Pass" -> <<"p","a","s","s">>
      [] k = "Assign" -> <<"x"," ","=">>
      [] k = "Input" -> <<"i","n","p","u","t">>
      [] k = "If" -> <<"i","f">>
      [] k = "For" -> <<"f","o","r">>
      [] k = "With" -> <<"w","i","t","h">>
      [] k = "FunctionDef" -> <<"d","e","f">>
      [] k \in {"Try", "TryStar"} -> <<"t","r","y",":">>
      [] k = "ExceptHandler" -> <<"e","x","c","e","p","t">>
      [] OTHER -> <<"e","x","p","r">>

ELSE_LINE == <<"e","l","s","e",":">>
FINALLY_LINE == <<"f","i","n","a","l","l","y",":">>

RECURSIVE unparse_stmt(_, _)
RECURSIVE unparse_items(_, _)

unparse_items(items, d) ==
    IF items = <<>> THEN <<>>
    ELSE unparse_stmt(Head(items), d) \o unparse_items(Tail(items), d)

unparse_block(x, d, header) ==
    IF x.items = <<>> THEN <<>>
    ELSE header \o unparse_items(x.items, d + 1)

unparse_stmt(s, d) ==
    LET own == TextLine(d, Keyword(s.kind) \o
                           (IF s.kind = "Print" THEN <<"(">> \o s.text \o <<")">> ELSE <<>>))
        slot(f, header) == IF hasattr(s, f) THEN unparse_block(s[f], d, header) ELSE <<>>
    IN  (IF s.kind = "FunctionDef" THEN <<EmptyLine>> ELSE <<>>)
        \o <<own>>
        \o (IF hasattr(s, "body") /\ IsList(s.body) THEN unparse_items(s.body.items, d + 1)
            ELSE <<>>)
        \o (IF hasattr(s, "handlers") THEN unparse_items(s.handlers.items, d) ELSE <<>>)
        \o slot("orelse", <<TextLine(d, ELSE_LINE)>>)
        \o slot("finalbody", <<TextLine(d, FINALLY_LINE)>>)

\* ast.unparse(tree).split("\n")
unparse(tree) == unparse_items(tree.body.items, 0)

\* c.strip() != ""
IsNotBlankLine(l) == Strip(l.text) # <<>>

\* a clean-up that keeps every line
Mut_remove_whitespace_lines_none(code_lines) == code_lines

\* [c for c in code_lines if c.strip() != ""]
remove_whitespace_lines(code_lines) == SelectSeq(code_lines, IsNotBlankLine)

\* print("##end_of_execution##"), as the text preprocess_python appends
SentinelLine == TextLine(0, <<"p","r","i","n","t","(">> \o END_OF_EXECUTION \o <<")">>)

\* The text preprocess_python returns, line by line: the wrapped program
\* without its whitespace-only lines, then "\n\nprint(...)"
preprocess_python_text(c) ==
    remove_whitespace_lines(unparse(wrap_in_try_except(Python_add_active_line_prints(c).tree)))
    \o <<EmptyLine, SentinelLine>>

(***************************************************************************)
(* The Python subprocess: what a program writes when the interactive       *)
(* interpreter (start_cmd ... -i -q -u) executes it.  A written line       *)
(* records its stream and text and, for the statement of the properties,   *)
(* who wrote it (origin) and the source line of the statement (lineno).    *)
(***************************************************************************)
OutLine(st, t, o, n) == [stream |-> st, text |-> t, origin |-> o, lineno |-> n]

\* "Traceback" and "Error": the two lines of a printed traceback
TRACEBACK_HEAD == <<"T","r","a","c","e","b","a","c","k">>
TRACEBACK_LAST == <<"E","r","r","o","r">>
TracebackLines == << OutLine("stderr", TRACEBACK_HEAD, "trace", 0),
                     OutLine("stderr", TRACEBACK_LAST, "trace", 0) >>

\* ">>> ": the prompt the interactive interpreter echoes on its error stream
PS1 == <<">",">",">"," ">>

\* The result of executing statements: the lines written, how it ended, the
\* lines of the statements executed, and how many lines input() took from stdin
OkR == [out |-> <<>>, st |-> "ok", steps |-> <<>>, reads |-> 0]
Join(r1, r2) == [out |-> r1.out \o r2.out, st |-> r2.st, steps |-> r1.steps \o r2.steps,
                 reads |-> r1.reads + r2.reads]

\* except <type>: which exceptions a handler catches
Catches(type, exc) ==
    \/ type = "BaseException"
    \/ type = "Exception" /\ exc = "Exception"

RECURSIVE ExecStmt(_)
RECURSIVE ExecItems(_)
RECURSIVE ExecRepeat(_, _)

ExecItems(items) ==
    IF items = <<>> THEN OkR
    ELSE LET r == ExecStmt(Head(items))
         IN  IF r.st # "ok" THEN r ELSE Join(r, ExecItems(Tail(items)))

ExecRepeat(k, items) ==
    IF k = 0 THEN OkR
    ELSE LET r == ExecItems(items)
         IN  IF r.st # "ok" THEN r ELSE Join(r, ExecRepeat(k - 1, items))

ExecTry(s) ==
    LET b == ExecItems(s.body.items)
        hs == s.handlers.items
        caught == { i \in 1..Len(hs) : Catches(hs[i].type, b.st) }
        first == CHOOSE i \in caught : \A j \in caught : i <= j
        afterBody ==
            IF b.st = "ok" THEN Join(b, ExecItems(s.orelse.items))
            ELSE IF caught = {} THEN b
            ELSE Join([b EXCEPT !.st = "ok"], ExecItems(hs[first].body.items))
        f == ExecItems(s.finalbody.items)
    IN  [out |-> afterBody.out \o f.out,
         st |-> IF f.st # "ok" THEN f.st ELSE afterBody.st,
         steps |-> afterBody.steps \o f.steps,
         reads |-> afterBody.reads + f.reads]

ExecStmt(s) ==
    LET here == IF hasattr(s, "lineno") THEN <<s.lineno>> ELSE <<>>
        n == IF hasattr(s, "lineno") THEN s.lineno ELSE 0
        started == [out |-> <<>>, st |-> "ok", steps |-> here, reads |-> 0]
    IN  CASE s.kind = "Print" ->
                [started EXCEPT !.out = <<OutLine(s.stream, s.text, s.by, n)>>]
          [] s.kind = "PrintExc" -> [started EXCEPT !.out = TracebackLines]
          [] s.kind = "Raise" -> [started EXCEPT !.st = s.exc]
          [] s.kind = "Input" -> [started EXCEPT !.reads = 1]
          [] s.kind = "If" ->
                Join(started, ExecItems(IF s.test THEN s.body.items ELSE s.orelse.items))
          [] s.kind = "For" ->
                LET r == Join(started, ExecRepeat(s.iters, s.body.items))
                IN  IF r.st # "ok" THEN r ELSE Join(r, ExecItems(s.orelse.items))
          [] s.kind = "With" -> Join(started, ExecItems(s.body.items))
          [] s.kind \in {"Try", "TryStar"} -> Join(started, ExecTry(s))
          [] OTHER -> started   \* Pass, Assign, Import, FunctionDef

\* s[k:]
Drop(s, k) == IF k >= Len(s) THEN <<>> ELSE SubSeq(s, k + 1, Len(s))

\* The interactive loop: one top-level statement after the other, read from
\* stdin.  SystemExit ends the interpreter; any other exception that reaches
\* the top level is printed on the error stream and the loop goes on.  A line
\* that input() took from stdin is a statement the loop never reads.
RECURSIVE Repl(_)
Repl(items) ==
    IF items = <<>> THEN [out |-> <<>>, exits |-> FALSE, steps |-> <<>>]
    ELSE LET r == ExecStmt(Head(items))
         IN  IF r.st = "SystemExit"
             THEN [out |-> r.out, exits |-> TRUE, steps |-> r.steps]
             ELSE LET rest == Repl(Drop(Tail(items), r.reads))
                      shown == IF r.st = "ok" THEN r.out ELSE r.out \o TracebackLines
                  IN  [out |-> shown \o rest.out, exits |-> rest.exits,
                       steps |-> r.steps \o rest.steps]

\* The prompts echoed while the program is read precede the first text the
\* turn writes to the error stream, on the same line.
RECURSIVE PromptEcho(_)
PromptEcho(out) ==
    IF out = <<>> THEN <<>>
    ELSE IF Head(out).stream = "stderr"
         THEN <<[Head(out) EXCEPT !.text = PS1 \o @]>> \o Tail(out)
         ELSE <<Head(out)>> \o PromptEcho(Tail(out))

\* One turn of the Python subprocess on the preprocessed program: fault is
\* how the instrumented submitted code ended, before any handler of the wrapper.
RunPython(marked, program) ==
    LET r == Repl(program.body.items)
    IN  [out |-> PromptEcho(r.out), exits |-> r.exits, steps |-> r.steps,
         fault |-> ExecItems(marked.body.items).st]

(***************************************************************************)
(* The PowerShell adapter.  Code is text: a sequence of lines, each given  *)
(* by the kind of statement it holds.  Lines of the submitted code carry   *)
(* their 1-based position as lineno.                                       *)
(***************************************************************************)
PsLine(k, t, b, n) == [kind |-> k, text |-> t, by |-> b, lineno |-> n]

\* code.split("\n") of a submitted script given by its lines' kinds and texts
PsCode(src) == [i \in 1..Len(src) |-> PsLine(src[i][1], src[i][2], "user", i)]

\* Write-Output "##active_line<index + 1>##"
PsMarker(i) ==
    PsLine("Write-Output", ACTIVE_LINE \o Str(i) \o HASHES, "instrumentor", 0)

\* an instrumentor that leaves blank lines out
RECURSIVE Mut_PowerShell_add_from_nonblank(_, _)
Mut_PowerShell_add_from_nonblank(lines, index) ==
    IF index > Len(lines) THEN <<>>
    ELSE (IF lines[index].kind = "blank" THEN <<>> ELSE <<PsMarker(index), lines[index]>>)
         \o Mut_PowerShell_add_from_nonblank(lines, index + 1)

Mut_PowerShell_add_active_line_prints_nonblank(c) == Mut_PowerShell_add_from_nonblank(c, 1)

\* add_active_line_prints of powershell.py: each line becomes marker, newline, line
RECURSIVE PowerShell_add_from(_, _)
PowerShell_add_from(lines, index) ==
    IF index > Len(lines) THEN <<>>
    ELSE <<PsMarker(index), lines[index]>> \o PowerShell_add_from(lines, index + 1)

PowerShell_add_active_line_prints(c) == PowerShell_add_from(c, 1)

\* wrap_in_try_catch: "\ntry {\n    $ErrorActionPreference = "Stop"\n" + code +
\* "\n} catch {\n    Write-Error $_\n}\n"
wrap_in_try_catch(c) ==
    << PsLine("blank", <<>>, "wrapper", 0),
       PsLine("try {", <<>>, "wrapper", 0),
       PsLine("$ErrorActionPreference", <<>>, "wrapper", 0) >>
    \o c \o
    << PsLine("} catch {", <<>>, "wrapper", 0),
       PsLine("Write-Error $_", <<>>, "wrapper", 0),
       PsLine("}", <<>>, "wrapper", 0),
       PsLine("blank", <<>>, "wrapper", 0) >>

\* preprocess_powershell: code += '\nWrite-Output "##end_of_execution##"'; the
\* wrapped code ends with an empty line, which the new text leaves empty
preprocess_powershell(c) ==
    LET wrapped == wrap_in_try_catch(PowerShell_add_active_line_prints(c))
    IN  Ok(wrapped \o << PsLine("Write-Output", END_OF_EXECUTION, "wrapper", 0) >>)

\* "Error": what Write-Error $_ writes; "bash:": what bash answers to a line
\* it cannot run
PS_ERROR == <<"E","r","r","o","r">>
BASH_ERROR == <<"b","a","s","h",":">>

\* The lines of a script a PowerShell runtime counts as statements
PsIsStatement(l) == l.kind \in {"Write-Output", "echo", "throw"}

\* powershell.exe / pwsh on the wrapped script.  mode: "run", "seek" (an error
\* was raised in the try block: skip to the catch clause), "catch" (in the
\* catch clause after an error), "skip" (past a catch clause not entered).
RECURSIVE PsRun(_, _, _)
PsRun(lines, i, mode) ==
    IF i > Len(lines) THEN [out |-> <<>>, steps |-> <<>>, fault |-> "ok"]
    ELSE LET l == lines[i]
             here == IF l.by = "user" /\ PsIsStatement(l) THEN <<l.lineno>> ELSE <<>>
         IN  CASE mode = "run" /\ l.kind \in {"Write-Output", "echo"} ->
                    LET r == PsRun(lines, i + 1, "run")
                    IN  [r EXCEPT !.out = <<OutLine("stdout", l.text, l.by, l.lineno)>> \o @,
                                  !.steps = here \o @]
               [] mode = "run" /\ l.kind = "throw" ->
                    LET r == PsRun(lines, i + 1, "seek")
                    IN  [r EXCEPT !.steps = here \o @, !.fault = "Error"]
               [] mode = "run" /\ l.kind = "} catch {" -> PsRun(lines, i + 1, "skip")
               [] mode = "seek" /\ l.kind = "} catch {" -> PsRun(lines, i + 1, "catch")
               [] mode = "catch" /\ l.kind = "Write-Error $_" ->
                    LET r == PsRun(lines, i + 1, "catch")
                    IN  [r EXCEPT !.out = <<OutLine("stderr", PS_ERROR, "trace", 0)>> \o @]
               [] mode \in {"catch", "skip"} /\ l.kind = "}" -> PsRun(lines, i + 1, "run")
               [] OTHER -> PsRun(lines, i + 1, mode)

\* bash on the same script: echo is the one command it knows; every other
\* command line is answered on the error stream, and the syntax error at
\* "} catch {" ends the (non-interactive) shell.
RECURSIVE BashRun(_, _)
BashRun(lines, i) ==
    IF i > Len(lines) THEN [out |-> <<>>, steps |-> <<>>, exits |-> FALSE]
    ELSE LET l == lines[i]
             here == IF l.by = "user" /\ PsIsStatement(l) THEN <<l.lineno>> ELSE <<>>
         IN  CASE l.kind = "echo" ->
                    LET r == BashRun(lines, i + 1)
                    IN  [r EXCEPT !.out = <<OutLine("stdout", l.text, l.by, l.lineno)>> \o @,
                                  !.steps = here \o @]
               [] l.kind \in {"blank", "comment"} -> BashRun(lines, i + 1)
               [] l.kind = "} catch {" ->
                    [out |-> <<OutLine("stderr", BASH_ERROR, l.by, l.lineno)>>,
                     steps |-> <<>>, exits |-> TRUE]
               [] OTHER ->
                    LET r == BashRun(lines, i + 1)
                    IN  [r EXCEPT !.out = <<OutLine("stderr", BASH_ERROR, l.by, l.lineno)>> \o @,
                                  !.steps = here \o @]

\* One turn of the shell the PowerShell adapter started
RunPowerShell(cmd, program) ==
    IF cmd = "bash"
    THEN LET r == BashRun(program, 1)
         IN  [out |-> r.out, exits |-> r.exits, steps |-> r.steps, fault |-> "ok"]
    ELSE LET r == PsRun(program, 1, "run")
         IN  [out |-> r.out, exits |-> FALSE, steps |-> r.steps, fault |-> r.fault]

(***************************************************************************)
(* SpecMarker: the classifier applied to the lines the instrumented        *)
(* program writes for its markers: what the statement of each adapter's    *)
(* instrumentor prints for line N, and the sentinel, as printed and as     *)
(* read with the newline that ends it.                                     *)
(***************************************************************************)
MaxLineNo == 120

\* What reading the output of print(t) or Write-Output t can give
Written(t) == {t, t \o <<"\n">>}

MarkerLines ==
    UNION { Written(insert_print_statement(N).text) \cup Written(PsMarker(N).text) :
            N \in 1..MaxLineNo }
    \cup Written(PrintSentinel.text)

InitMarker ==
    /\ line \in MarkerLines
    /\ classified = FALSE
    /\ post = [a \in Adapters |-> None]
    /\ active = [a \in Adapters |-> None]
    /\ ended = [a \in Adapters |-> FALSE]
    /\ SessionIdle
    /\ UtilIdle

SpecMarker == InitMarker /\ [][NextLine]_vars

\* C30: emitting and parsing markers round-trip in both adapters: for every
\* line number N >= 1 the text the instrumentor's statement prints for N is
\* parsed by detect_active_line to exactly N and is not taken for the end of
\* execution; the sentinel is detected as end of execution and is not parsed
\* as an active line.
Thm_C30_MarkersRoundTrip ==
    classified =>
        /\ \A N \in 1..MaxLineNo :
              /\ line \in Written(insert_print_statement(N).text) =>
                    (active["python"] = IntOf(N) /\ ~ended["python"])
              /\ line \in Written(PsMarker(N).text) =>
                    (active["powershell"] = IntOf(N) /\ ~ended["powershell"])
        /\ line \in Written(END_OF_EXECUTION) =>
              \A a \in Adapters : ended[a] /\ active[a] = None

\* C30's case: the marker of line 107, read with its newline, parsed to 107.
Wit_C30_ThreeDigitMarkerParsed ==
    /\ classified
    /\ line = ACTIVE_LINE \o <<"1","0","7">> \o HASHES \o <<"\n">>
    /\ active["python"] = IntOf(107) /\ active["powershell"] = IntOf(107)
    /\ ~ended["python"]

(***************************************************************************)
(* Line post-processing and the classification of a line into an event.    *)
(***************************************************************************)
Event(ty, num, t, o, n) == [type |-> ty, n |-> num, text |-> t, origin |-> o, lineno |-> n]
EndOfExecution == Event("EndOfExecution", 0, <<>>, "", 0)
Fault == Event("Fault", 0, <<>>, "", 0)

\* The LineEvent of one raw line: Discard, ActiveLine(N), EndOfExecution or
\* OutputText; ReaderError when detect_active_line raised.
classifyLine(a, l) ==
    LET t == line_postprocessor(a, l.text)
    IN  IF t = None THEN Event("Discard", 0, <<>>, l.origin, l.lineno)
        ELSE LET d == detect_active_line(a, t.val)
             IN  IF d.tag = "int" THEN Event("ActiveLine", d.val, <<>>, l.origin, l.lineno)
                 ELSE IF d.tag = "ValueError"
                      THEN Event("ReaderError", 0, t.val, l.origin, l.lineno)
                 ELSE IF detect_end_of_execution(a, t.val) THEN EndOfExecution
                 ELSE Event("OutputText", 0, t.val, l.origin, l.lineno)

(***************************************************************************)
(* The submitted programs of the model.                                    *)
(***************************************************************************)
PythonPrograms == {
    \* print(1); print(2)
    << PrintOut(1, <<"1">>), PrintOut(2, <<"2">>) >>,
    \* print(1); raise ValueError; print(2)
    << PrintOut(1, <<"1">>), Raise(2, "Exception"), PrintOut(3, <<"2">>) >>,
    \* print(1); raise SystemExit
    << PrintOut(1, <<"1">>), Raise(2, "SystemExit") >>,
    \* raise KeyboardInterrupt
    << Raise(1, "KeyboardInterrupt") >>,
    \* try: raise ValueError / except Exception: print("h")
    << Try(1, <<Raise(2, "Exception")>>,
              <<ExceptHandler(3, "Exception", <<PrintOut(4, <<"h">>)>>)>>, <<>>, <<>>) >>,
    \* try: pass / except Exception: pass / else: print("e") / finally: print("f")
    << Try(1, <<Pass(2)>>, <<ExceptHandler(3, "Exception", <<Pass(4)>>)>>,
              <<PrintOut(6, <<"e">>)>>, <<PrintOut(8, <<"f">>)>>) >>,
    \* try: pass / except* ValueError: pass / finally: print("f")
    << TryStar(1, <<Pass(2)>>, <<ExceptHandler(3, "Exception", <<Pass(4)>>)>>,
                  <<>>, <<PrintOut(6, <<"f">>)>>) >>,
    \* for i in range(2): print(1); print(2)
    << For(1, 2, <<PrintOut(2, <<"1">>), PrintOut(3, <<"2">>)>>, <<>>) >>,
    \* if True: print(1) / else: print(2); then for i in range(1): pass / else: pass
    << If(1, TRUE, <<PrintOut(2, <<"1">>)>>, <<PrintOut(4, <<"2">>)>>),
       For(5, 1, <<Pass(6)>>, <<Pass(8)>>) >>,
    \* with x: print(1); def f(): pass
    << With(1, <<PrintOut(2, <<"1">>)>>), FunctionDef(3, <<Pass(4)>>) >>,
    \* f = lambda: 0
    << Assign(1, Lambda(1, Constant(1))) >>,
    \* y = 1 if c else 2; print(1)
    << Assign(1, IfExp(1, Constant(1), Constant(1))), PrintOut(2, <<"1">>) >>,
    \* print("e", file=sys.stderr); print("w", file=sys.stderr)
    << PrintErr(1, <<"e">>), PrintErr(2, <<"w">>) >>,
    \* x = input(); print(1)
    << Input(1), PrintOut(2, <<"1">>) >>,
    \* print(1); followed by text that is not Python
    << PrintOut(1, <<"1">>), Invalid >>
}

PowerShellPrograms == {
    PsCode(<< <<"Write-Output", <<"1">>>>, <<"Write-Output", <<"2">>>> >>),
    PsCode(<< <<"echo", <<"1">>>>, <<"blank", <<>>>>, <<"echo", <<"2">>>> >>),
    PsCode(<< <<"Write-Output", <<"1">>>>, <<"throw", <<>>>>, <<"Write-Output", <<"2">>>> >>),
    PsCode(<< <<"comment", <<>>>>, <<"echo", <<"1">>>> >>),
    \* if ($true) { / echo 1 / (blank) / }
    PsCode(<< <<"if {", <<>>>>, <<"echo", <<"1">>>>, <<"blank", <<>>>>, <<"}", <<>>>> >>)
}

Programs(a) == IF a = "python" THEN PythonPrograms ELSE PowerShellPrograms

(***************************************************************************)
(* The session: one interactive subprocess, its two pipes, the reader path *)
(* and the caller's lazy event sequence.                                   *)
(***************************************************************************)
\* Python.__init__ (vision off): sys.executable + " -i -q -u"
Python_start_cmd == "python -i -q -u"

\* PowerShell.__init__ consults platform.system() and, off Windows,
\* shutil.which("pwsh"); Python.__init__ (vision off) takes sys.executable
Consulted(a, system, which_pwsh) ==
    IF a = "python" THEN NoHost
    ELSE IF system = "Windows" THEN Host(system, "unasked")
    ELSE Host(system, IF which_pwsh THEN "found" ELSE "missing")

\* a constructor that takes bash wherever it is not on Windows
Mut_PowerShell_start_cmd_bash(system, which_pwsh) ==
    IF system = "Windows" THEN "powershell.exe" ELSE "bash"

\* PowerShell.__init__: platform.system() and shutil.which("pwsh") decide
PowerShell_start_cmd(system, which_pwsh) ==
    IF system = "Windows" THEN "powershell.exe"
    ELSE IF which_pwsh THEN "pwsh" ELSE "bash"

preprocess_code(a, c) ==
    IF a = "python" THEN preprocess_python(c) ELSE preprocess_powershell(c)

\* What the subprocess writes when it runs the preprocessed code
RunTurn(a, cmd, c) ==
    IF a = "python"
    THEN RunPython(Python_add_active_line_prints(c).tree, preprocess_python(c).tree)
    ELSE RunPowerShell(cmd, preprocess_powershell(c).tree)

\* The start commands an adapter can have, and every line a program of the
\* catalogue can make the subprocess write
StartCmds(a) ==
    IF a = "python" THEN {Python_start_cmd}
    ELSE {PowerShell_start_cmd(system, which_pwsh) :
             system \in {"Windows", "Linux"}, which_pwsh \in BOOLEAN}

LinesWritten(a) ==
    UNION { {RunTurn(a, cmd, c).out[i] : i \in 1..Len(RunTurn(a, cmd, c).out)} :
            cmd \in StartCmds(a), c \in {p \in Programs(a) : preprocess_code(a, p).ok} }

\* The LineEvent of each of those lines: classifyLine, computed once per line
LineEvents == [a \in Adapters |-> [l \in LinesWritten(a) |-> classifyLine(a, l)]]

NoTrace == [out |-> <<>>, exits |-> FALSE, steps |-> <<>>, fault |-> "ok"]

Init ==
    /\ LineIdle
    /\ UtilIdle
    /\ lang = "none" /\ start_cmd = "" /\ host = NoHost /\ found = TRUE
    /\ proc = "none" /\ turn = "idle"
    /\ turns = 0 /\ code = <<>> /\ trace = NoTrace /\ pos = 0
    /\ stdout = <<>> /\ stderr = <<>> /\ output_queue = <<>> /\ events = <<>>

\* Whether the host has the binary the start command names: the running Python
\* interpreter and, on Windows, powershell.exe are there; elsewhere pwsh and
\* bash may each be missing.
BinaryFound(a, system, which_pwsh, which_bash) ==
    \/ a = "python"
    \/ system = "Windows"
    \/ IF which_pwsh THEN TRUE ELSE which_bash

\* The adapter is constructed and its subprocess started; the subprocess
\* cannot start when the binary is missing.
CreateSession(a, system, which_pwsh, which_bash) ==
    /\ lang = "none"
    /\ lang' = a
    /\ start_cmd' = IF a = "python" THEN Python_start_cmd
                    ELSE PowerShell_start_cmd(system, which_pwsh)
    /\ host' = Consulted(a, system, which_pwsh)
    /\ found' = BinaryFound(a, system, which_pwsh, which_bash)
    /\ proc' = IF found' THEN "alive" ELSE "dead"
    /\ UNCHANGED <<turn, turns, code, trace, pos, stdout, stderr, output_queue, events>>
    /\ UNCHANGED <<lineVars, utilVars>>

\* a run(code) that writes without waiting for the turn in progress to end
Mut_Submit_unserialized(c) ==
    /\ lang # "none" /\ proc = "alive"
    /\ turns < MaxTurns
    /\ turns' = turns + 1
    /\ code' = c
    /\ events' = <<>>
    /\ IF preprocess_code(lang, c).ok
       THEN /\ turn' = "running"
            /\ trace' = RunTurn(lang, start_cmd, c)
            /\ pos' = 0
       ELSE /\ turn' = "failed"
            /\ UNCHANGED <<trace, pos>>
    /\ UNCHANGED <<lang, start_cmd, host, found, proc, stdout, stderr, output_queue>>
    /\ UNCHANGED <<lineVars, utilVars>>

\* a run(code) that writes to the session whatever became of its subprocess
Mut_Submit_to_unusable_session(c) ==
    /\ lang # "none"
    /\ turn \in {"idle", "done", "failed", "fault"}
    /\ turns < MaxTurns
    /\ turns' = turns + 1
    /\ code' = c
    /\ events' = <<>>
    /\ IF preprocess_code(lang, c).ok
       THEN /\ turn' = "running"
            /\ trace' = RunTurn(lang, start_cmd, c)
            /\ pos' = 0
       ELSE /\ turn' = "failed"
            /\ UNCHANGED <<trace, pos>>
    /\ UNCHANGED <<lang, start_cmd, host, found, proc, stdout, stderr, output_queue>>
    /\ UNCHANGED <<lineVars, utilVars>>

\* run(code): preprocess, then one write of the result to the subprocess's
\* stdin.  A preprocessing error is raised to the caller and nothing is written.
Submit(c) ==
    /\ lang # "none" /\ proc = "alive"
    /\ turn \in {"idle", "done", "failed"}
    /\ turns < MaxTurns
    /\ turns' = turns + 1
    /\ code' = c
    /\ events' = <<>>
    /\ IF preprocess_code(lang, c).ok
       THEN /\ turn' = "running"
            /\ trace' = RunTurn(lang, start_cmd, c)
            /\ pos' = 0
       ELSE /\ turn' = "failed"
            /\ UNCHANGED <<trace, pos>>
    /\ UNCHANGED <<lang, start_cmd, host, found, proc, stdout, stderr, output_queue>>
    /\ UNCHANGED <<lineVars, utilVars>>

\* The subprocess writes its next line.  The Python subprocess has an output
\* and an error pipe; the shell's error stream is merged into its output.
ProcWrite ==
    /\ proc = "alive" /\ pos < Len(trace.out)
    /\ pos' = pos + 1
    /\ LET l == trace.out[pos + 1]
       IN  IF lang = "python" /\ l.stream = "stderr"
           THEN stderr' = Append(stderr, l) /\ UNCHANGED stdout
           ELSE stdout' = Append(stdout, l) /\ UNCHANGED stderr
    /\ UNCHANGED <<lang, start_cmd, host, found, proc, turn, turns, code, trace, output_queue, events>>
    /\ UNCHANGED <<lineVars, utilVars>>

\* The subprocess ends after its last line (SystemExit, the shell's exit).
ProcExit ==
    /\ proc = "alive" /\ turn = "running"
    /\ pos = Len(trace.out) /\ trace.exits
    /\ proc' = "dead"
    /\ UNCHANGED <<lang, start_cmd, host, found, turn, turns, code, trace, pos, stdout, stderr,
                   output_queue, events>>
    /\ UNCHANGED <<lineVars, utilVars>>

\* The subprocess crashes or is killed from outside, in the middle of a turn or
\* between two turns; what it had not yet written is never written.
Kill ==
    /\ proc = "alive"
    /\ proc' = "killed"
    /\ UNCHANGED <<lang, start_cmd, host, found, turn, turns, code, trace, pos, stdout, stderr,
                   output_queue, events>>
    /\ UNCHANGED <<lineVars, utilVars>>

Enqueue(q, e) == IF e.type = "Discard" THEN q ELSE Append(q, e)

\* The reader path takes the next line of the output pipe.
ReadStdout ==
    /\ stdout # <<>>
    /\ stdout' = Tail(stdout)
    /\ output_queue' = Enqueue(output_queue, LineEvents[lang][Head(stdout)])
    /\ UNCHANGED <<lang, start_cmd, host, found, proc, turn, turns, code, trace, pos, stderr, events>>
    /\ UNCHANGED <<lineVars, utilVars>>

\* The reader path takes the next line of the error pipe.
ReadStderr ==
    /\ stderr # <<>>
    /\ stderr' = Tail(stderr)
    /\ output_queue' = Enqueue(output_queue, LineEvents[lang][Head(stderr)])
    /\ UNCHANGED <<lang, start_cmd, host, found, proc, turn, turns, code, trace, pos, stdout, events>>
    /\ UNCHANGED <<lineVars, utilVars>>

\* The caller pulls the next event; EndOfExecution ends the turn's sequence.
Consume ==
    /\ turn = "running" /\ output_queue # <<>>
    /\ events' = Append(events, Head(output_queue))
    /\ output_queue' = Tail(output_queue)
    /\ turn' = IF Head(output_queue).type = "EndOfExecution" THEN "done" ELSE turn
    /\ UNCHANGED <<lang, start_cmd, host, found, proc, turns, code, trace, pos, stdout, stderr>>
    /\ UNCHANGED <<lineVars, utilVars>>

\* a driver that notices the subprocess's own exit but not its being killed
Mut_ObserveExit_own_exit_only ==
    /\ turn = "running" /\ proc = "dead"
    /\ stdout = <<>> /\ stderr = <<>> /\ output_queue = <<>>
    /\ events' = Append(events, Fault)
    /\ turn' = "fault"
    /\ UNCHANGED <<lang, start_cmd, host, found, proc, turns, code, trace, pos, stdout, stderr,
                   output_queue>>
    /\ UNCHANGED <<lineVars, utilVars>>

\* The subprocess is gone and everything it wrote was delivered: the turn ends
\* with a fault event.
ObserveExit ==
    /\ turn = "running" /\ proc \in {"dead", "killed"}
    /\ stdout = <<>> /\ stderr = <<>> /\ output_queue = <<>>
    /\ events' = Append(events, Fault)
    /\ turn' = "fault"
    /\ UNCHANGED <<lang, start_cmd, host, found, proc, turns, code, trace, pos, stdout, stderr,
                   output_queue>>
    /\ UNCHANGED <<lineVars, utilVars>>

Next ==
    \/ \E a \in Adapters, system \in {"Windows", "Linux"},
          which_pwsh \in BOOLEAN, which_bash \in BOOLEAN :
          CreateSession(a, system, which_pwsh, which_bash)
    \/ \E c \in Programs(lang) : Submit(c)
    \/ ProcWrite
    \/ ProcExit
    \/ Kill
    \/ ReadStdout
    \/ ReadStderr
    \/ Consume
    \/ ObserveExit

Spec == Init /\ [][Next]_vars

\* The reader path and the caller's loop keep running: a line in a pipe is
\* eventually read, a queued event eventually pulled, a dead subprocess
\* eventually noticed.  Nothing obliges the caller to submit or the subprocess
\* to go on writing.
Fairness ==
    /\ WF_vars(ReadStdout) /\ WF_vars(ReadStderr)
    /\ WF_vars(Consume) /\ WF_vars(ObserveExit)

SpecLive == Spec /\ Fairness

\* The subprocess, too, keeps running: it writes the lines the submitted
\* program makes it write, and it exits when the program makes it exit.
SpecTerm == Spec /\ Fairness /\ WF_vars(ProcWrite) /\ WF_vars(ProcExit)

(***************************************************************************)
(* Properties of a turn.                                                   *)
(***************************************************************************)
TurnStarted == turn \in {"running", "done", "fault"}

\* The turn ran without a fault, or with one the error wrapper caught.
WrapperCaught ==
    IF lang = "python" THEN trace.fault = "Exception" ELSE trace.fault = "Error"
FaultFree == trace.fault = "ok"

IsActiveLine(e) == e.type = "ActiveLine"
ActiveLineEvents == SelectSeq(events, IsActiveLine)

\* The lines the subprocess has written in this turn that the adapter's
\* detect_active_line reads as a marker.
IsWrittenMarker(l) == detect_active_line(IF lang = "none" THEN "python" ELSE lang, l.text).tag = "int"
WrittenMarkers == SelectSeq(SubSeq(trace.out, 1, pos), IsWrittenMarker)
WrittenN(l) == detect_active_line(lang, l.text).val

NonDecreasing(ns) == \A i, j \in 1..Len(ns) : i <= j => ns[i] <= ns[j]

\* A raw line or a queued event that will reach the caller as OutputText
RawIsOutputText(l) == classifyLine(lang, l).type = "OutputText"
PendingOutputText ==
    \/ \E i \in 1..Len(stdout) : RawIsOutputText(stdout[i])
    \/ \E i \in 1..Len(stderr) : RawIsOutputText(stderr[i])
    \/ \E i \in 1..Len(output_queue) : output_queue[i].type = "OutputText"

\* C1: in a fault-free or caught-fault turn EndOfExecution is the last event:
\* once the caller has observed it, no OutputText of the turn (normal output or
\* error trace, on either stream) is still to be delivered.
CE_C1_EndOfExecutionIsLast ==
    (turn = "done" /\ (FaultFree \/ WrapperCaught)) => ~PendingOutputText

\* C2: whatever fault the submitted code raises, the wrapper contains it and
\* the subprocess stays alive for the next submission.
CE_C2_EveryFaultContained ==
    (TurnStarted /\ trace.fault # "ok") => proc # "dead"

IsSentinelLine(l) == Occurs(l.text, END_OF_EXECUTION)
SentinelsWritten == Len(SelectSeq(SubSeq(trace.out, 1, pos), IsSentinelLine))

\* C3: in every turn the sentinel is emitted exactly once: never twice, and
\* once when the subprocess is through with the submitted program.
CE_C3_SentinelExactlyOnce ==
    TurnStarted =>
        /\ SentinelsWritten <= 1
        /\ (pos = Len(trace.out) /\ ~ENABLED ProcExit) => SentinelsWritten = 1

\* C4: every OutputText a statement of the submitted code produced is preceded,
\* in the caller's event order, by the ActiveLine of that statement's line.
CE_C4_MarkerPrecedesOutput ==
    \A k \in 1..Len(events) :
        (events[k].type = "OutputText" /\ events[k].origin = "user") =>
            \E j \in 1..(k - 1) :
                events[j].type = "ActiveLine" /\ events[j].n = events[k].lineno

\* C5: in a fault-free run every execution of a statement gives exactly one
\* ActiveLine event: the turn has as many as statements were executed.
CE_C5_OneActiveLinePerStatement ==
    (turn = "done" /\ FaultFree) => Len(ActiveLineEvents) = Len(trace.steps)

\* C6 as claimed: in a fault-free run the line numbers of the ActiveLine
\* events are non-decreasing, for all source code, loops included.
CE_C6_ActiveLinesNonDecreasing ==
    (turn = "done" /\ FaultFree) =>
        NonDecreasing([i \in 1..Len(ActiveLineEvents) |-> ActiveLineEvents[i].n])

\* C6 as amended: in a fault-free run the line numbers of the markers the
\* subprocess writes, and of the ActiveLine events the caller receives, are
\* non-decreasing whenever the statements themselves execute in non-decreasing
\* line order (no loop body of several lines is repeated).
Thm_C6_ActiveLinesFollowExecution ==
    (TurnStarted /\ FaultFree /\ NonDecreasing(trace.steps)) =>
        /\ NonDecreasing([i \in 1..Len(WrittenMarkers) |-> WrittenN(WrittenMarkers[i])])
        /\ NonDecreasing([i \in 1..Len(ActiveLineEvents) |-> ActiveLineEvents[i].n])

\* C6's case: a finished fault-free Python turn with a taken branch and a loop
\* that ran once, five ActiveLine events received.
Wit_C6_BranchAndLoopOnce ==
    /\ lang = "python" /\ turn = "done" /\ FaultFree
    /\ NonDecreasing(trace.steps)
    /\ Len(ActiveLineEvents) = 5
    /\ \E i \in 1..Len(code) : code[i].kind = "For"

(***************************************************************************)
(* Properties of the instrumented program.                                 *)
(***************************************************************************)
\* The statement-list slots of a node
StmtSlots == {"body", "orelse", "finalbody"}

\* Every statement with a line number is immediately preceded, in its list, by
\* the statement printing its marker; in every nested statement list.
RECURSIVE WellMarked(_)
RECURSIVE WellMarkedNode(_)
WellMarked(x) ==
    IF ~IsList(x) THEN TRUE
    ELSE \A i \in 1..Len(x.items) :
            /\ hasattr(x.items[i], "lineno") =>
                  /\ i > 1
                  /\ x.items[i - 1] = insert_print_statement(x.items[i].lineno)
            /\ WellMarkedNode(x.items[i])

WellMarkedNode(s) ==
    /\ \A f \in DOMAIN s \cap StmtSlots : WellMarked(s[f])
    /\ hasattr(s, "handlers") =>
          \A i \in 1..Len(s.handlers.items) : WellMarked(s.handlers.items[i].body)

\* C7: in the program the Python instrumentor returns, every statement with a
\* line number, top-level or nested (branches, loops and their else, with and
\* function bodies, try bodies, handlers, try-else, finally), is immediately
\* preceded by the statement printing ##active_line<N>## for its line N.
CE_C7_EveryStatementMarked ==
    (lang = "python" /\ turns > 0 /\ Python_add_active_line_prints(code).ok) =>
        WellMarkedNode(Python_add_active_line_prints(code).tree)

\* The instrumented program without the statements the instrumentor added
RECURSIVE StripMarkers(_)
IsInjected(s) == hasattr(s, "by") /\ s.by = "instrumentor"
StripMarkers(x) ==
    IF IsList(x)
    THEN LET kept == SelectSeq(x.items, LAMBDA s : ~IsInjected(s))
         IN  L([i \in 1..Len(kept) |-> StripMarkers(kept[i])])
    ELSE [f \in DOMAIN x |-> IF f \in ChildFields THEN StripMarkers(x[f]) ELSE x[f]]

IsNotInjectedLine(l) == l.by # "instrumentor"

\* C8: for every valid program and both adapters instrumentation succeeds and
\* only adds marker statements: without them the program is the original one,
\* expression bodies (lambda, conditional expression) included.
CE_C8_InstrumentationOnlyAdds ==
    (turns > 0 /\ parses(code)) =>
        IF lang = "python"
        THEN /\ Python_add_active_line_prints(code).ok
             /\ StripMarkers(visit(parse(code))) = parse(code)
        ELSE SelectSeq(PowerShell_add_active_line_prints(code), IsNotInjectedLine) = code

IsWrapperLine(l) == l.by = "wrapper"
IsProgramLine(l) == l.by # "wrapper"

\* The positions of the wrapper's lines of a given kind in a shell script
WrapperLines(script, k) ==
    {i \in 1..Len(script) : script[i].by = "wrapper" /\ script[i].kind = k}

\* C23 for the Python adapter: the written program is one try statement and
\* the sentinel statement after it; the try's body is import traceback and then
\* the whole instrumented program in order, it has one handler, except
\* Exception, whose body prints the traceback, and no else or finally.
WrappedOncePython ==
    LET marked == Python_add_active_line_prints(code).tree
        prog == preprocess_python(code).tree.body.items
        try == prog[1]
    IN  /\ Len(prog) = 2
        /\ try.kind = "Try"
        /\ try.body.items = <<ImportTraceback>> \o marked.body.items
        /\ Len(try.handlers.items) = 1
        /\ try.handlers.items[1].type = "Exception"
        /\ try.handlers.items[1].body.items = <<PrintExc>>
        /\ try.orelse.items = <<>> /\ try.finalbody.items = <<>>
        /\ prog[2] = PrintSentinel

\* C23 for the shell adapter: the wrapper writes one try opener and one catch
\* clause; every line of the instrumented script lies between the two, in
\* order; the catch clause writes the error; after its closing brace comes
\* nothing but the sentinel statement.
WrappedOncePowerShell ==
    LET marked == PowerShell_add_active_line_prints(code)
        script == preprocess_powershell(code).tree
        opens == WrapperLines(script, "try {")
        catches == WrapperLines(script, "} catch {")
        open == CHOOSE i \in opens : TRUE
        catch == CHOOSE i \in catches : TRUE
    IN  /\ Cardinality(opens) = 1 /\ Cardinality(catches) = 1
        /\ \A k \in 1..Len(script) : IsProgramLine(script[k]) => (open < k /\ k < catch)
        /\ SelectSeq(script, IsProgramLine) = marked
        /\ script[catch + 1].kind = "Write-Error $_"
        /\ script[catch + 2].kind = "}"
        /\ \A k \in (catch + 3)..(Len(script) - 1) : script[k].kind = "blank"
        /\ script[Len(script)].kind = "Write-Output"
        /\ script[Len(script)].text = END_OF_EXECUTION
        /\ \A k \in 1..(Len(script) - 1) : script[k].text # END_OF_EXECUTION

PreprocessedPrograms == {c \in PythonPrograms : preprocess_python(c).ok}
WrappedText ==
    [c \in PreprocessedPrograms |->
        unparse(wrap_in_try_except(Python_add_active_line_prints(c).tree))]
PreprocessedText == [c \in PreprocessedPrograms |-> preprocess_python_text(c)]

IsWhitespaceOnly(l) == \A k \in 1..Len(l.text) : l.text[k] = " "

\* The returned text out is the wrapped text without its blank lines, one
\* empty line and the sentinel statement
OnlyBlankLinesRemoved(wrapped, out) ==
    LET n == Len(out)
    IN  /\ n >= 2
        /\ out[n] = SentinelLine
        /\ \A i \in 1..n : IsWhitespaceOnly(out[i]) <=> i = n - 1
        /\ SubSeq(out, 1, n - 2) = SelectSeq(wrapped, LAMBDA l : ~IsWhitespaceOnly(l))
        /\ \A i \in 1..Len(wrapped) :
              ~IsWhitespaceOnly(wrapped[i]) => \E j \in 1..(n - 2) : out[j] = wrapped[i]

CleanedPrograms ==
    {c \in PreprocessedPrograms : OnlyBlankLinesRemoved(WrappedText[c], PreprocessedText[c])}

\* C24: the text preprocess_python returns has no empty or whitespace-only
\* line except the single blank line immediately before the final statement
\* printing the sentinel, and the clean-up removes nothing but blank lines:
\* every non-blank line of the wrapped program is kept, unchanged and in order.
Thm_C24_OnlyBlankLinesRemoved ==
    (lang = "python" /\ turn \in {"running", "done", "fault"}) => code \in CleanedPrograms

\* C24's case: the wrapped program has an empty line (ast.unparse writes one
\* before the function definition) and the text written to the subprocess is
\* one line shorter than it, sentinel lines apart.
Wit_C24_EmptyLineBeforeDefRemoved ==
    /\ lang = "python" /\ turn = "done" /\ Len(code) = 2
    /\ code[2].kind = "FunctionDef"
    /\ \E i \in 1..Len(WrappedText[code]) : WrappedText[code][i] = EmptyLine
    /\ Len(PreprocessedText[code]) = Len(WrappedText[code]) - 1 + 2

(***************************************************************************)
(* Properties of the driver: ordering, serialization, faults.              *)
(***************************************************************************)
IsPrefix(a, b) == Len(a) <= Len(b) /\ \A i \in 1..Len(a) : a[i] = b[i]

IsNotDiscard(e) == e.type # "Discard"
IsNotFault(e) == e.type # "Fault"

\* The events of the lines the subprocess has written in this turn, in the
\* order in which it wrote them.
ProducedEvents ==
    SelectSeq([i \in 1..pos |-> classifyLine(lang, trace.out[i])], IsNotDiscard)

\* C12: whatever the interleaving of subprocess, reader path and consumer, the
\* events the caller has received are the events of the lines the subprocess
\* wrote, in the order it wrote them, error-stream lines included.
CE_C12_EventsInProductionOrder ==
    TurnStarted => IsPrefix(SelectSeq(events, IsNotFault), ProducedEvents)

\* The step in which code is written to the subprocess's stdin
WritesCode == turns' = turns + 1 /\ turn' = "running"

\* C13: code is written to the subprocess's stdin only when no turn is in
\* progress: the previous turn's EndOfExecution or fault has been observed, so
\* at most one submission is in flight.
Thm_C13_OneSubmissionInFlight ==
    [][WritesCode => turn # "running"]_vars

\* C13's case: a second submission has been written, after the first turn
\* ended, and the subprocess is running it.
Wit_C13_SecondSubmissionRunning ==
    turns = 2 /\ turn = "running" /\ pos > 0 /\ events # <<>>

SubprocessGone == proc \in {"dead", "killed"}

\* C14: when the subprocess exits or is killed during a turn before it has
\* written the sentinel, the caller's event sequence eventually ends with the
\* fault event, which is not an OutputText: the read does not block forever.
Thm_C14_DeathEndsTurnWithFault ==
    (turn = "running" /\ SubprocessGone /\ SentinelsWritten = 0)
        ~> (turn = "fault" /\ events # <<>> /\ events[Len(events)] = Fault
            /\ Fault.type # "OutputText")

\* C14's case: the subprocess was killed with lines still to write, and the
\* turn ended with the fault event.
Wit_C14_KilledMidTurn ==
    /\ proc = "killed" /\ pos > 0 /\ pos < Len(trace.out)
    /\ turn = "fault" /\ events[Len(events)] = Fault

\* C15: after a subprocess-level fault (crash, unexpected exit, kill) the
\* session is unusable: no code is written to it again.  A session is one
\* subprocess; recreating it makes a new session.
Thm_C15_NoWriteAfterSubprocessFault ==
    [][WritesCode => (~SubprocessGone /\ turn # "fault")]_vars

\* C15's case: the first turn ended with the fault event, a further submission
\* would still be within the bound, and none can be written.
Wit_C15_SessionUnusable ==
    /\ turn = "fault" /\ SubprocessGone /\ turns = 1
    /\ events[Len(events)] = Fault
    /\ ~ENABLED (\E c \in Programs(lang) : Submit(c))

TurnEnded ==
    \/ turn = "done" /\ events # <<>> /\ events[Len(events)] = EndOfExecution
    \/ turn = "fault" /\ events # <<>> /\ events[Len(events)] = Fault /\ SubprocessGone

\* C16: with any start command the adapter may select, the event sequence of a
\* turn whose submitted code terminates is finite and ends with EndOfExecution,
\* or with the fault event when the subprocess died; once ended it yields
\* nothing more.
CE_C16_TurnEndsWithTerminalEvent ==
    /\ (turn = "running") ~> TurnEnded
    /\ [][(turn \in {"done", "fault"} /\ turns' = turns) => events' = events]_vars

\* C17: when the submitted code cannot be parsed, the instrumentor's failure
\* reaches the caller before anything is done with the subprocess: nothing is
\* written to it, no turn starts, and the session is as it was.
Thm_C17_ParseFailureBeforeAnyWrite ==
    [][(turns' = turns + 1 /\ ~parses(code')) =>
          /\ preprocess_code(lang, code') = SyntaxError
          /\ turn' = "failed"
          /\ UNCHANGED <<lang, start_cmd, host, found, proc, trace, pos, stdout, stderr, output_queue>>]_vars

\* C17's case: unparsable code was submitted to a session that had run a turn
\* before; the submission failed and the subprocess was left alone.
Wit_C17_UnparsableRejected ==
    /\ turns = 2 /\ turn = "failed" /\ ~parses(code)
    /\ proc = "alive" /\ pos = Len(trace.out) /\ pos > 0 /\ events = <<>>

\* C18: when the host has no suitable interpreter binary (for the shell
\* adapter neither pwsh nor bash), creating the session raises a
\* platform-resolution fault: no session comes to exist with a start command
\* whose binary is missing.
CE_C18_MissingBinaryFaultsAtCreation ==
    lang # "none" => found

MaxCalls == 3

Interpreters == [local : BOOLEAN, openai_model : BOOLEAN, api_key : BOOLEAN,
                 auto_run : BOOLEAN]

\* display_markdown_message(message): the message is displayed
display_markdown_message(out, message) == Append(out, message)

\* What one call of display_welcome_message_once does to the flag and the console
Mut_welcome_always(flag, out) ==
    [flag |-> TRUE, out |-> display_markdown_message(out, "welcome")]

welcome_once(flag, out) ==
    IF ~flag
    THEN [flag |-> TRUE, out |-> display_markdown_message(out, "welcome")]
    ELSE [flag |-> flag, out |-> out]

InitWelcome ==
    /\ LineIdle /\ SessionIdle /\ ScanIdle /\ PkgIdle /\ TextIdle
    /\ interpreter \in Interpreters
    /\ displayed = FALSE /\ welcome_calls = 0 /\ console = <<>> /\ calls = 0

\* display_welcome_message_once()
display_welcome_message_once ==
    /\ calls < MaxCalls
    /\ calls' = calls + 1
    /\ welcome_calls' = welcome_calls + 1
    /\ displayed' = welcome_once(displayed, console).flag
    /\ console' = welcome_once(displayed, console).out
    /\ UNCHANGED interpreter
    /\ UNCHANGED <<lineVars, sessVars, scanVars, pkgVars, textVars>>

\* validate_llm_settings(interpreter), with OPENAI_API_KEY set or not in the
\* environment and the key the user types at the prompt, empty or not
validate_llm_settings(env_key, response) ==
    /\ calls < MaxCalls
    /\ calls' = calls + 1
    /\ LET asks == ~interpreter.local /\ interpreter.openai_model
                   /\ ~env_key /\ ~interpreter.api_key
           w == welcome_once(displayed, console)
           echoed == Append(display_markdown_message(w.out, "key_not_found"), "key_echo")
           asked == display_markdown_message(echoed, "tip")
           out == IF asks THEN asked ELSE console
           says == ~interpreter.auto_run /\ ~interpreter.local
       IN  /\ welcome_calls' = IF asks THEN welcome_calls + 1 ELSE welcome_calls
           /\ displayed' = IF asks THEN w.flag ELSE displayed
           /\ interpreter' = IF asks THEN [interpreter EXCEPT !.api_key = response]
                             ELSE interpreter
           /\ console' = IF says THEN display_markdown_message(out, "model_set") ELSE out
    /\ UNCHANGED <<lineVars, sessVars, scanVars, pkgVars, textVars>>

NextWelcome ==
    \/ display_welcome_message_once
    \/ \E env_key \in BOOLEAN, response \in BOOLEAN : validate_llm_settings(env_key, response)

SpecWelcome == InitWelcome /\ [][NextWelcome]_vars

IsWelcome(m) == m = "welcome"
WelcomesShown == Len(SelectSeq(console, IsWelcome))

MaxScans == 3

\* language_map: the languages it knows
LanguageMap == {"python", "shell"}
Languages == LanguageMap \cup {"cobol"}

\* How semgrep's run ends: exit status 0, exit status 1 (issues found),
\* subprocess.run raising an Exception, the user interrupting the scan
ScanOutcomes == {"clean", "issues", "Exception", "KeyboardInterrupt"}

\* None, where a file name is expected: file names count from 1
NoFile == 0

\* create_temporary_file(contents, extension, verbose): the file is created,
\* then written; when the write raises, the error is printed and None returned
create_temporary_file(fs, name, write_ok, verbose) ==
    IF write_ok
    THEN [fs |-> fs \cup {name}, ret |-> name,
          out |-> IF verbose THEN <<"Created temporary file">> ELSE <<>>]
    ELSE [fs |-> fs \cup {name}, ret |-> NoFile,
          out |-> <<"Could not create temporary file.">>]

\* cleanup_temporary_file(temp_file_name, verbose): os.remove, its error printed
cleanup_temporary_file(fs, name, remove_ok, verbose) ==
    IF remove_ok /\ name \in fs
    THEN [fs |-> fs \ {name},
          out |-> IF verbose THEN <<"Cleaning up temporary file">> ELSE <<>>]
    ELSE [fs |-> fs, out |-> <<"Could not clean up temporary file.">>]

\* The try statement of scan_code: semgrep is run; an Exception is printed,
\* anything else propagates
run_semgrep(language, outcome, safe_auto) ==
    IF outcome = "clean"
    THEN [raised |-> "", out |-> <<"No issues were found">>]
    ELSE IF outcome = "issues" THEN [raised |-> "", out |-> <<>>]
    ELSE IF outcome = "Exception" THEN [raised |-> "", out |-> <<"Could not scan code.">>]
    ELSE [raised |-> outcome, out |-> <<>>]

\* scan_code(code, language, interpreter): the files left, how the call ended
\* ("returned" or the exception raised) and what it printed
scan_code(fs, name, language, debug_mode, write_ok, outcome, remove_ok) ==
    IF language \notin LanguageMap
    THEN [fs |-> fs, result |-> "KeyError", out |-> <<>>]
    ELSE LET created == create_temporary_file(fs, name, write_ok, debug_mode)
         IN  IF created.ret = NoFile
             THEN [fs |-> created.fs, result |-> "TypeError", out |-> created.out]
             ELSE LET told == created.out \o
                              (IF debug_mode THEN <<"Scanning code">> ELSE <<>>)
                      scan == run_semgrep(language, outcome, FALSE)
                  IN  IF scan.raised # ""
                      THEN [fs |-> created.fs, result |-> scan.raised,
                            out |-> told \o scan.out]
                      ELSE LET cleaned == cleanup_temporary_file(created.fs, created.ret,
                                                                 remove_ok, debug_mode)
                           IN  [fs |-> cleaned.fs, result |-> "returned",
                                out |-> told \o scan.out \o cleaned.out]

InitScan ==
    /\ LineIdle /\ SessionIdle /\ WelcomeIdle /\ ScanIdle /\ PkgIdle /\ TextIdle

\* One call of scan_code by the host
ScanCode(language, debug_mode, write_ok, outcome, remove_ok) ==
    /\ scans < MaxScans
    /\ scans' = scans + 1
    /\ LET r == scan_code(files, scans + 1, language, debug_mode, write_ok, outcome,
                          remove_ok)
       IN  files' = r.fs /\ scan_result' = r.result /\ scan_out' = r.out
    /\ UNCHANGED <<lineVars, sessVars, welcomeVars, pkgVars, textVars>>

NextScan ==
    \E language \in Languages, debug_mode \in BOOLEAN, write_ok \in BOOLEAN,
       outcome \in ScanOutcomes, remove_ok \in BOOLEAN :
        ScanCode(language, debug_mode, write_ok, outcome, remove_ok)

SpecScan == InitScan /\ [][NextScan]_vars

\* C20: whenever scan_code has returned or raised, the temporary file it
\* created no longer exists, whether the scan found nothing, found issues or
\* failed with an exception: no temporary file is left behind.
CE_C20_TemporaryFileRemoved ==
    scan_result # "none" => files = {}

(***************************************************************************)
(* check_for_package.  The environment is fixed: which packages            *)
(* importlib.util.find_spec finds, and how executing each one's module     *)
(* ends.  sys.modules is the only thing a call changes.                    *)
(***************************************************************************)
MaxChecks == 4

\* The packages asked for: one loaded at start, one that loads, one whose
\* module raises ImportError when executed (it imports something missing), one
\* whose module raises another exception, one that is not installed, and a
\* dotted name whose parent package is not installed
Packages == {"sys", "colorsys", "brokenpkg", "crashpkg", "nope", "nopar.child"}

\* importlib.util.find_spec(package): a spec, None, or ModuleNotFoundError
\* raised while importing the parent of a dotted name
find_spec(p) ==
    IF p \in {"sys", "colorsys", "brokenpkg", "crashpkg"} THEN "spec"
    ELSE IF p = "nopar.child" THEN "ModuleNotFoundError"
    ELSE "None"

\* spec.loader.exec_module(module): how executing the module ends
exec_module(p) ==
    IF p = "brokenpkg" THEN "ImportError"
    ELSE IF p = "crashpkg" THEN "ZeroDivisionError"
    ELSE "ok"

\* check_for_package(package): sys.modules afterwards, and "True", "False" or
\* the exception that left the call
check_for_package(mods, p) ==
    IF p \in mods THEN [mods |-> mods, result |-> "True"]
    ELSE IF find_spec(p) = "spec"
         THEN LET entered == mods \cup {p}
              IN  IF exec_module(p) = "ok" THEN [mods |-> entered, result |-> "True"]
                  ELSE IF exec_module(p) = "ImportError"
                       THEN [mods |-> entered, result |-> "False"]
                  ELSE [mods |-> entered, result |-> exec_module(p)]
    ELSE IF find_spec(p) = "None" THEN [mods |-> mods, result |-> "False"]
    ELSE [mods |-> mods, result |-> find_spec(p)]

InitPkg ==
    /\ LineIdle /\ SessionIdle /\ WelcomeIdle /\ ScanIdle /\ PkgIdle /\ TextIdle

\* One call of check_for_package by the host
CheckForPackage(p) ==
    /\ pkg_calls < MaxChecks
    /\ pkg_calls' = pkg_calls + 1
    /\ pkg_last' = p
    /\ LET r == check_for_package(sys_modules, p)
       IN  /\ sys_modules' = r.mods
           /\ pkg_result' = r.result
           /\ load_failed' =
                 IF r.result = "False" /\ find_spec(p) = "spec"
                 THEN load_failed \cup {p} ELSE load_failed
    /\ UNCHANGED <<lineVars, sessVars, welcomeVars, scanVars, textVars>>

NextPkg == \E p \in Packages : CheckForPackage(p)

SpecPkg == InitPkg /\ [][NextPkg]_vars

\* Whether p is loaded at start or can be found and loaded without ImportError
Available(p) ==
    p \in LoadedAtStart \/ (find_spec(p) = "spec" /\ exec_module(p) = "ok")

\* C21: over any sequence of calls check_for_package(p) returns True only
\* when p is already loaded or can be found and loaded without ImportError; and
\* once a call has returned False because loading p failed, a later call for p
\* still returns False.
CE_C21_TrueOnlyWhenAvailable ==
    pkg_calls > 0 =>
        /\ pkg_result = "True" => Available(pkg_last)
        /\ pkg_last \in load_failed => pkg_result = "False"

(***************************************************************************)
(* The message block: textify_markdown_code_blocks.  A markdown text is    *)
(* its lines (text.split("\n")), a line its characters.                    *)
(***************************************************************************)
MaxLines == 3

\* The backtick, a character no string of this language can hold
BT == "bt"

\* "```" and "```text"
FENCE == <<BT, BT, BT>>
REPLACEMENT == FENCE \o <<"t","e","x","t">>

\* \w, for the characters of the model's lines
IsWordChar(c) == c \in {"p", "y", "t", "e", "x", "1", "_"}

\* re.match(r"^```(\w*)$", s)
re_match_fence(s) ==
    /\ StartsWithAt(s, FENCE, 1)
    /\ \A k \in (Len(FENCE) + 1)..Len(s) : IsWordChar(s[k])

\* The lines a message is made of: fences bare, with a language, indented and
\* followed by blanks, already textified; ordinary text; an empty line; and
\* lines that look like a fence and are none (a blank inside, four backticks,
\* backticks after text)
MessageLines == {
    FENCE,
    FENCE \o <<"p","y">>,
    <<" ">> \o FENCE \o <<"p","y"," ">>,
    REPLACEMENT,
    <<"x">>,
    <<>>,
    FENCE \o <<" ","p","y">>,
    FENCE \o <<BT>>,
    <<"x">> \o FENCE
}

RECURSIVE MessagesOf(_)
MessagesOf(n) == IF n = 0 THEN { <<>> }
                 ELSE LET shorter == MessagesOf(n - 1)
                      IN  shorter \cup { Append(t, l) : t \in shorter, l \in MessageLines }

\* a pass that replaces every fence line, opening or closing
RECURSIVE Mut_textify_from_every_fence(_, _, _)
Mut_textify_from_every_fence(lines, i, inside_code_block) ==
    IF i > Len(lines) THEN lines
    ELSE IF re_match_fence(Strip(lines[i]))
         THEN Mut_textify_from_every_fence([lines EXCEPT ![i] = REPLACEMENT], i + 1,
                                           ~inside_code_block)
         ELSE Mut_textify_from_every_fence(lines, i + 1, inside_code_block)

Mut_textify_every_fence(lines) == Mut_textify_from_every_fence(lines, 1, FALSE)

\* the loop of textify_markdown_code_blocks, from line i on
RECURSIVE textify_from(_, _, _)
textify_from(lines, i, inside_code_block) ==
    IF i > Len(lines) THEN lines
    ELSE IF re_match_fence(Strip(lines[i]))
         THEN IF ~inside_code_block
              THEN textify_from([lines EXCEPT ![i] = REPLACEMENT], i + 1, TRUE)
              ELSE textify_from(lines, i + 1, FALSE)
         ELSE textify_from(lines, i + 1, inside_code_block)

textify_markdown_code_blocks(lines) == textify_from(lines, 1, FALSE)

InitText ==
    /\ LineIdle /\ SessionIdle /\ WelcomeIdle /\ ScanIdle /\ PkgIdle
    /\ block_message \in MessagesOf(MaxLines)
    /\ textified = <<>> /\ retextified = <<>> /\ passes = 0

\* MessageBlock.refresh renders the message: one pass over it
Refresh ==
    /\ passes = 0
    /\ passes' = 1
    /\ textified' = textify_markdown_code_blocks(block_message)
    /\ UNCHANGED <<block_message, retextified>>
    /\ UNCHANGED <<lineVars, sessVars, welcomeVars, scanVars, pkgVars>>

\* A second pass, over what the first returned
RefreshAgain ==
    /\ passes = 1
    /\ passes' = 2
    /\ retextified' = textify_markdown_code_blocks(textified)
    /\ UNCHANGED <<block_message, textified>>
    /\ UNCHANGED <<lineVars, sessVars, welcomeVars, scanVars, pkgVars>>

NextText == Refresh \/ RefreshAgain

SpecText == InitText /\ [][NextText]_vars

\* A fence line: blanks, three backticks, word characters, blanks; nothing else
IsFenceLine(l) ==
    \E a \in 0..Len(l), b \in 0..Len(l) :
        /\ a + 3 <= b
        /\ \A k \in 1..a : l[k] = " "
        /\ \A k \in (a + 1)..(a + 3) : l[k] = BT
        /\ \A k \in (a + 4)..b : IsWordChar(l[k])
        /\ \A k \in (b + 1)..Len(l) : l[k] = " "

\* The fence lines of a text before line i
FencesBefore(t, i) == Cardinality({k \in 1..(i - 1) : IsFenceLine(t[k])})

\* Line i opens a code block: it is a fence and an even number precede it
Opens(t, i) == IsFenceLine(t[i]) /\ FencesBefore(t, i) % 2 = 0

====
